---- MODULE Spec2Model ----
(***************************************************************************)
(* Model of the BookMyShow event tracker: main.py (daily snapshot, diff,   *)
(* text report) and to_excel.py (report text -> table rows).               *)
(*                                                                         *)
(* A Python str is modelled as a sequence of tokens.  Every character the  *)
(* code inspects on its own (space, newline, '=', '-', '.', ':', '(', ')', *)
(* digits) is a token of its own; a run of letters is one token.  All the  *)
(* string operations used by the code (strip, startswith, in, replace,     *)
(* split, join, indexing, slicing) are defined on these sequences.         *)
(*                                                                         *)
(* A Python dict with optional keys is a function whose DOMAIN is the set  *)
(* of keys present; the empty dict {} is the function with empty domain.   *)
(***************************************************************************)
EXTENDS Integers, Sequences, FiniteSets, TLC

\* ------------------------------------------------------------------ bounds
\* longest snapshot list (scraped, or held by a snapshot file)
MaxEvents == 2
\* longest added / removed list of a hand-built diff result
MaxListed == 2
\* longest added list of the long diff results (beyond the summary cap)
MaxAdded == 11
\* most lines of a free-form converter input
MaxLines == 3

\* ------------------------------------------------------------ str methods
\* characters str.strip() removes
IsSpace(c) == c \in {" ", "\t", "\n", "\r"}

\* str.isdigit() on one character
IsDigit(c) == c \in {"0", "1", "2", "3", "4", "5", "6", "7", "8", "9"}

RECURSIVE LStrip(_)
LStrip(s) == IF Len(s) > 0 /\ IsSpace(s[1]) THEN LStrip(Tail(s)) ELSE s

RECURSIVE RStrip(_)
RStrip(s) == IF Len(s) > 0 /\ IsSpace(s[Len(s)])
             THEN RStrip(SubSeq(s, 1, Len(s) - 1)) ELSE s

\* s.strip()
Strip(s) == RStrip(LStrip(s))

\* s.startswith(p)
StartsWith(s, p) == Len(p) <= Len(s) /\ SubSeq(s, 1, Len(p)) = p

\* s.find(sub) + 1: position of the first occurrence, 0 when there is none
Find(s, sub) ==
    LET hits == {i \in 1..(Len(s) - Len(sub) + 1) : SubSeq(s, i, i + Len(sub) - 1) = sub}
    IN  IF hits = {} THEN 0 ELSE CHOOSE i \in hits : \A j \in hits : i <= j

\* sub in s
Contains(s, sub) == Find(s, sub) # 0

\* s.replace(old, new), old non-empty
RECURSIVE Replace(_, _, _)
Replace(s, old, new) ==
    LET i == Find(s, old)
    IN  IF i = 0 THEN s
        ELSE SubSeq(s, 1, i - 1) \o new
             \o Replace(SubSeq(s, i + Len(old), Len(s)), old, new)

\* s.split(sep), sep non-empty
RECURSIVE Split(_, _)
Split(s, sep) ==
    LET i == Find(s, sep)
    IN  IF i = 0 THEN <<s>>
        ELSE <<SubSeq(s, 1, i - 1)>> \o Split(SubSeq(s, i + Len(sep), Len(s)), sep)

\* s.split(sep, 1)[1], defined when sep in s
AfterFirst(s, sep) == SubSeq(s, Find(s, sep) + Len(sep), Len(s))

\* sep.join(parts)
RECURSIVE Join(_, _)
Join(parts, sep) ==
    IF Len(parts) = 0 THEN <<>>
    ELSE IF Len(parts) = 1 THEN parts[1]
    ELSE parts[1] \o sep \o Join(Tail(parts), sep)

\* str(n) for n >= 0
RECURSIVE FormatInt(_)
FormatInt(n) ==
    LET d == <<"0", "1", "2", "3", "4", "5", "6", "7", "8", "9">>
    IN  IF n < 10 THEN <<d[n + 1]>> ELSE FormatInt(n \div 10) \o <<d[(n % 10) + 1]>>

\* a literal made of words separated by single spaces
Words(ws) == Join([i \in 1..Len(ws) |-> <<ws[i]>>], <<" ">>)

NL == <<"\n">>
Bar == <<"=", "=", "=">>
NA == <<"N", "/", "A">>
Untitled == Words(<<"Untitled", "Event">>)

\* dict.get(key, default)
Get(d, key, default) == IF key \in DOMAIN d THEN d[key] ELSE default

\* the empty dict
EmptyDict == [k \in {} |-> k]

\* truth value of a dict or a list: non-empty
Truthy(d) == DOMAIN d # {}

\* ------------------------------------------------------------ event pool
\* Event records as the scraper builds them (main.py 197-202): name and url
\* always present, url = " " + href or "N/A"; the other keys are optional.
EvA == [name |-> <<"A">>, url |-> <<" ", "/e/1">>]
EvA2 == [name |-> <<"A2">>, url |-> <<" ", "/e/1">>, venue |-> <<"Hall">>]
EvB == [name |-> <<"B">>, url |-> <<" ", "/e/2">>, venue |-> <<"Club">>,
        date |-> <<"Fri">>, price |-> <<"500">>, status |-> Words(<<"Filling", "Fast">>),
        is_fast_filling |-> TRUE, is_sold_out |-> FALSE]
EvC == [name |-> <<"C">>, url |-> NA, date |-> <<"Sat">>, price |-> <<>>,
        status |-> Words(<<"Sold", "Out">>), is_fast_filling |-> FALSE, is_sold_out |-> TRUE]

EventPool == {EvA, EvA2, EvB, EvC}

\* the i-th event of a long listing
LongEvent(i) == [name |-> <<"E">> \o FormatInt(i), url |-> <<" ", "/e/">> \o FormatInt(i),
                 venue |-> <<"Hall">> \o FormatInt(i)]

\* sequences of length <= n over S without a repeated element
ListsOver(S, n) ==
    UNION {{s \in [1..k -> S] : \A i, j \in 1..k : i # j => s[i] # s[j]} : k \in 0..n}

\* every ordering of the finite set S as a list
Orderings(S) == {s \in [1..Cardinality(S) -> S] : \A i, j \in DOMAIN s : i # j => s[i] # s[j]}

Range(s) == {s[i] : i \in DOMAIN s}

UniqueUrls(list) == \A i, j \in DOMAIN list : i # j => list[i].url # list[j].url

\* ------------------------------------------------------------- file model
\* A file is absent, present with unparsable content, or present with data.
AbsentFile == [state |-> "absent", data |-> <<>>]
MalformedFile == [state |-> "malformed", data |-> <<>>]
FileOf(data) == [state |-> "ok", data |-> data]

\* ---------------------------------------------------------------- main.py
\* load_events: url-keyed dict of the file's records, the last record of a
\* url winning; {} for a missing file or invalid JSON.
LoadEvents(file) ==
    IF file.state # "ok" THEN EmptyDict
    ELSE LET evs == file.data
             urls == {evs[i].url : i \in DOMAIN evs}
         IN  [u \in urls |-> evs[CHOOSE i \in DOMAIN evs :
                                   /\ evs[i].url = u
                                   /\ \A j \in DOMAIN evs : evs[j].url = u => j <= i]]

\* mutant of AddedUrls: the old keys are not subtracted
AddedUrlsNotSubtracted(old_events, new_events) == DOMAIN new_events

\* the two set differences of compare_events
AddedUrls(old_events, new_events) == (DOMAIN new_events) \ (DOMAIN old_events)
RemovedUrls(old_events, new_events) == (DOMAIN old_events) \ (DOMAIN new_events)

\* the dict compare_events returns, for given iteration orders of the two sets
DiffResult(old_events, new_events, added_order, removed_order) ==
    [added |-> [i \in DOMAIN added_order |-> new_events[added_order[i]]],
     removed |-> [i \in DOMAIN removed_order |-> old_events[removed_order[i]]],
     stats |-> [added |-> Len(added_order),
                removed |-> Len(removed_order),
                total_old |-> Cardinality(DOMAIN old_events),
                total_new |-> Cardinality(DOMAIN new_events)]]

\* compare_events: every result it can return; the lists follow the iteration
\* order of a Python set, which is any order.
CompareEvents(old_file, new_file) ==
    LET old_events == LoadEvents(old_file)
        new_events == LoadEvents(new_file)
    IN  {DiffResult(old_events, new_events, a, r) :
            a \in Orderings(AddedUrls(old_events, new_events)),
            r \in Orderings(RemovedUrls(old_events, new_events))}

\* datetime.now().strftime('%Y-%m-%d %H:%M:%S')
Clock == {<<"2", "0", "2", "5", "-", "0", "6", "-", "0", "5", " ",
            "1", "0", ":", "0", "0", ":", "0", "0">>}

RECURSIVE Flatten(_)
Flatten(ss) == IF Len(ss) = 0 THEN <<>> ELSE ss[1] \o Flatten(Tail(ss))

\* mutant of SummarySlice: the slice is dropped
SummarySliceAll(added) == added

\* results['added'][:10]
SummarySlice(added) == SubSeq(added, 1, IF Len(added) < 10 THEN Len(added) ELSE 10)

\* the lines of one event of the added section (main.py 311-316)
AddedLines(event) ==
    <<<<"-", " ">> \o Get(event, "name", Untitled),
      <<" ", " ", "URL", ":", " ">> \o Get(event, "url", NA)>>
    \o (IF Get(event, "is_fast_filling", FALSE)
        THEN <<<<" ", " ", "(", "Fast", " ", "Filling", "!", ")">>>> ELSE <<>>)
    \o (IF Get(event, "is_sold_out", FALSE)
        THEN <<<<" ", " ", "(", "SOLD", " ", "OUT", "!", ")">>>> ELSE <<>>)

\* the lines of one event of the removed section (main.py 320-321)
RemovedLines(event) ==
    <<<<"-", " ">> \o Get(event, "name", Untitled),
      <<" ", " ", "URL", ":", " ">> \o Get(event, "url", NA)>>

\* the lines of the i-th summary entry (main.py 327-336)
SummaryLines(i, event) ==
    <<NL \o FormatInt(i) \o <<".", " ">> \o Get(event, "name", Untitled),
      <<" ", " ", " ", "Venue", ":", " ">> \o Get(event, "venue", NA),
      <<" ", " ", " ", "Date", ":", " ">> \o Get(event, "date", NA),
      <<" ", " ", " ", "URL", ":", " ">> \o Get(event, "url", NA)>>
    \o (IF Len(Get(event, "price", <<>>)) > 0
        THEN <<<<" ", " ", " ", "Price", ":", " ">> \o event.price>> ELSE <<>>)
    \o (IF Get(event, "is_fast_filling", FALSE)
        THEN <<<<" ", " ", " ", "Status", ":", " ", "FAST", " ", "FILLING", "!">>>> ELSE <<>>)
    \o (IF Get(event, "is_sold_out", FALSE)
        THEN <<<<" ", " ", " ", "Status", ":", " ", "SOLD", " ", "OUT", "!">>>> ELSE <<>>)

\* report_lines of generate_report_content
ReportLines(results, now) ==
    LET stats == results.stats
        added == results.added
        removed == results.removed
        top == SummarySlice(added)
    IN  <<NL \o Bar \o <<" ">> \o Words(<<"Event", "Comparison", "Results">>) \o <<" ">> \o Bar,
          <<"Old", " ", "file", ":", " ">> \o FormatInt(stats.total_old) \o <<" ", "events">>,
          <<"New", " ", "file", ":", " ">> \o FormatInt(stats.total_new) \o <<" ", "events">>,
          <<"Comparison", " ", "time", ":", " ">> \o now \o NL,
          Words(<<"Newly", "added", "events">>) \o <<" ", "(">>
              \o FormatInt(stats.added) \o <<")", ":">>>>
        \o Flatten([i \in DOMAIN added |-> AddedLines(added[i])])
        \o <<NL \o Words(<<"Removed", "events">>) \o <<" ", "(">>
              \o FormatInt(stats.removed) \o <<")", ":">>>>
        \o Flatten([i \in DOMAIN removed |-> RemovedLines(removed[i])])
        \o (IF Len(added) > 0
            THEN <<NL \o Bar \o <<" ">> \o Words(<<"New", "Events", "Summary">>) \o <<" ">> \o Bar>>
                 \o Flatten([i \in DOMAIN top |-> SummaryLines(i, top[i])])
            ELSE <<>>)

\* generate_report_content
GenerateReportContent(results, now) == Join(ReportLines(results, now), NL)

\* ------------------------------------------------------------- to_excel.py
\* a fresh row dict (to_excel.py 40-46, 55-61)
NewRow(name, type) == [name |-> name, url |-> <<>>, type |-> type, venue |-> NA, date |-> NA]

\* d[key] = value
Put(d, key, value) == [k \in (DOMAIN d) \cup {key} |-> IF k = key THEN value ELSE d[k]]

\* mutant of Flush: the "if current_event" test is dropped
FlushAlways(evs, current) == Append(evs, current)

\* "if current_event: events.append(current_event)" (to_excel.py 37-38, 52-53, 70-71)
Flush(evs, current) == IF Truthy(current) THEN Append(evs, current) ELSE evs

\* the section a '===' line selects (to_excel.py 27-32)
SectionOf(line, section) ==
    IF Contains(line, Words(<<"Newly", "added", "events">>)) THEN "added"
    ELSE IF Contains(line, Words(<<"Removed", "events">>)) THEN "removed"
    ELSE IF Contains(line, Words(<<"New", "Events", "Summary">>)) THEN "summary"
    ELSE section

\* One iteration of the parsing loop (to_excel.py 20-67) on the parser state
\* st = [section, events, current]; raw is the line as split from the content.
ParseLine(st, raw) ==
    LET line == Strip(raw)
    IN  IF Len(line) = 0 THEN st
        ELSE IF StartsWith(line, Bar)
        THEN [st EXCEPT !.section = SectionOf(line, st.section)]
        ELSE IF StartsWith(line, <<"-", " ">>) /\ st.section \in {"added", "removed"}
        THEN [st EXCEPT !.events = Flush(st.events, st.current),
                        !.current = NewRow(SubSeq(line, 3, Len(line)),
                                           IF st.section = "added" THEN <<"Added">>
                                           ELSE <<"Removed">>)]
        ELSE IF StartsWith(line, <<" ", " ", "URL", ":">>) /\ Truthy(st.current)
        THEN [st EXCEPT !.current = Put(st.current, "url",
                                        Strip(Replace(line, <<"URL", ":">>, <<>>)))]
        ELSE IF st.section = "summary" /\ IsDigit(line[1]) /\ Contains(line, <<".", " ">>)
        THEN [st EXCEPT !.events = Flush(st.events, st.current),
                        !.current = NewRow(AfterFirst(line, <<".", " ">>),
                                           Words(<<"New", "Summary">>))]
        ELSE IF st.section = "summary" /\ StartsWith(line, <<" ", " ", " ", "Venue", ":">>)
        THEN [st EXCEPT !.current = Put(st.current, "venue",
                                        Strip(Replace(line, <<"Venue", ":">>, <<>>)))]
        ELSE IF st.section = "summary" /\ StartsWith(line, <<" ", " ", " ", "Date", ":">>)
        THEN [st EXCEPT !.current = Put(st.current, "date",
                                        Strip(Replace(line, <<"Date", ":">>, <<>>)))]
        ELSE IF st.section = "summary" /\ StartsWith(line, <<" ", " ", " ", "URL", ":">>)
        THEN [st EXCEPT !.current = Put(st.current, "url",
                                        Strip(Replace(line, <<"URL", ":">>, <<>>)))]
        ELSE st

\* the keys the row writer reads (to_excel.py 79-85)
RowKeys == {"name", "type", "venue", "date", "url"}

\* the worksheet: the header row, then one row per event (to_excel.py 74-86)
Sheet(evs) ==
    <<<<Words(<<"Event", "Name">>), <<"Type">>, <<"Venue">>, <<"Date">>, <<"URL">>>>>>
    \o [i \in DOMAIN evs |-> <<evs[i].name, evs[i].type, evs[i].venue, evs[i].date, evs[i].url>>]

\* mutant of OpenRaises: a missing file reads as an empty one
OpenNeverRaises(file) == FALSE

\* open(input_file) raises FileNotFoundError (to_excel.py 11)
OpenRaises(file) == file.state = "absent"

\* ------------------------------------------------------------------ state
\* Optional values (None, or a value): None is <<>>, a value x is <<x>>.
None == <<>>
Some(x) == <<x>>

VARIABLES
    \* main(): position, locals, files, standard output
    pc,                  \* "start", "scraped", "saved", "compared", "printed", "done", "crashed"
    recent_events,       \* None before the scrape; then Some(None) or Some(Some(list))
    comparison_results,  \* None, or Some(the dict compare_events returned)
    report_content,      \* None, or Some(the text print_and_save_report printed)
    today_file,          \* data/bookmyshow/events_<today>.json
    yesterday_file,      \* data/bookmyshow/events_<yesterday>.json
    report_file,         \* reports/event_report_<today>.txt
    console,             \* the messages printed, in order
    main_exc,            \* "none", or the exception that reached main
    stages,              \* history: the functions main has called, in order
    io_failed,           \* history: the save functions whose write failed
    writes,              \* history: the files opened for writing
    \* convert_report_to_excel(): position, locals, files
    conv_pc,             \* "render", "start", "loop", "write", "done", "raised"
    conv_source,         \* history: what the input file was made from
    input_file,          \* the report text file read
    output_file,         \* the spreadsheet written
    lines,               \* content.split('\n')
    idx,                 \* lines consumed by the for loop
    current_section,
    events,
    current_event,
    conv_error,          \* "none", or the exception raised to the caller
    row_starts           \* history: the row-start lines met, with the section each was met in

mainVars == <<pc, recent_events, comparison_results, report_content, today_file,
              yesterday_file, report_file, console, main_exc, stages, io_failed,
              writes>>
convVars == <<conv_pc, conv_source, input_file, output_file, lines, idx,
              current_section, events, current_event, conv_error, row_starts>>
vars == <<mainVars, convVars>>

\* ------------------------------------------------------------ main.py: run
\* what an attempt to write a file can do: succeed, fail at open() (the file
\* is left as it was), or fail after open() truncated it
IoOutcomes == {"ok", "open_fails", "write_fails"}

\* the lists scrape_events can return: url-unique (main.py 192-195)
ScrapedLists == {l \in ListsOver(EventPool, MaxEvents) : UniqueUrls(l)}

\* the contents a snapshot file can hold
SnapshotFiles == {AbsentFile, MalformedFile} \cup {FileOf(l) : l \in ListsOver(EventPool, MaxEvents)}

\* mutant of NoData: "if recent_events is None"
NoDataNoneOnly(scraped) == scraped = None

\* "if not recent_events" (main.py 371): None or an empty list
NoData(scraped) == IF scraped = None THEN TRUE ELSE Len(scraped[1]) = 0

\* mutant of BaselineMissing: the early return is dropped
BaselineNeverMissing(file) == FALSE

\* "not yesterday_file.exists()" (main.py 382)
BaselineMissing(file) == file.state = "absent"

\* mutant of SaveEvents: the try/except is dropped
SaveEventsNoCatch(evs, file, io) ==
    IF Len(evs) = 0 THEN [file |-> file, out |-> <<>>, raised |-> FALSE, opened |-> FALSE]
    ELSE IF io = "ok"
    THEN [file |-> FileOf(evs), out |-> <<"saved_events">>, raised |-> FALSE, opened |-> TRUE]
    ELSE [file |-> IF io = "open_fails" THEN file ELSE MalformedFile,
          out |-> <<>>, raised |-> TRUE, opened |-> TRUE]

\* save_events: the file afterwards, what was printed, whether it raised
SaveEvents(evs, file, io) ==
    IF Len(evs) = 0 THEN [file |-> file, out |-> <<>>, raised |-> FALSE, opened |-> FALSE]
    ELSE IF io = "ok"
    THEN [file |-> FileOf(evs), out |-> <<"saved_events">>, raised |-> FALSE, opened |-> TRUE]
    ELSE [file |-> IF io = "open_fails" THEN file ELSE MalformedFile,
          out |-> <<"error_saving_events">>, raised |-> FALSE, opened |-> TRUE]

\* save_report: the file afterwards, what was printed, whether it raised
SaveReport(content, file, io) ==
    IF io = "ok"
    THEN [file |-> FileOf(content), out |-> <<"report_saved">>, raised |-> FALSE, opened |-> TRUE]
    ELSE [file |-> IF io = "open_fails" THEN file ELSE MalformedFile,
          out |-> <<"error_saving_report">>, raised |-> FALSE, opened |-> TRUE]

\* The converter is idle during a run of main.
ConvIdle ==
    /\ conv_pc = "idle"
    /\ conv_source = [kind |-> "none"]
    /\ input_file = AbsentFile
    /\ output_file = AbsentFile
    /\ lines = <<>>
    /\ idx = 0
    /\ current_section = "none"
    /\ events = <<>>
    /\ current_event = EmptyDict
    /\ conv_error = "none"
    /\ row_starts = <<>>

\* Before main(): yesterday's snapshot is absent, unparsable or any list;
\* today's is absent or left by an earlier run of the same day.
Init ==
    /\ pc = "start"
    /\ recent_events = None
    /\ comparison_results = None
    /\ report_content = None
    /\ today_file \in {AbsentFile, FileOf(<<EvC>>)}
    /\ yesterday_file \in SnapshotFiles
    /\ report_file = AbsentFile
    /\ console = <<>>
    /\ main_exc = "none"
    /\ stages = <<>>
    /\ io_failed = {}
    /\ writes = {}
    /\ ConvIdle

\* main.py 365-369: scrape_events() returns None, or a list (possibly empty)
MainScrape ==
    /\ pc = "start"
    /\ \E r \in {None} \cup {Some(l) : l \in ScrapedLists} : recent_events' = Some(r)
    /\ pc' = "scraped"
    /\ console' = Append(console, "scraping")
    /\ stages' = Append(stages, "scrape_events")
    /\ UNCHANGED <<comparison_results, report_content, today_file, yesterday_file,
                   report_file, main_exc, io_failed, writes>>
    /\ UNCHANGED convVars

\* main.py 371-373
MainNoData ==
    /\ pc = "scraped"
    /\ NoData(recent_events[1])
    /\ pc' = "done"
    /\ console' = Append(console, "no_recent_events")
    /\ UNCHANGED <<recent_events, comparison_results, report_content, today_file,
                   yesterday_file, report_file, main_exc, stages, io_failed, writes>>
    /\ UNCHANGED convVars

\* main.py 375-376
MainSaveEvents ==
    /\ pc = "scraped"
    /\ ~NoData(recent_events[1])
    /\ \E io \in IoOutcomes :
          LET r == SaveEvents(recent_events[1][1], today_file, io)
          IN  /\ today_file' = r.file
              /\ console' = console \o r.out
              /\ pc' = IF r.raised THEN "crashed" ELSE "saved"
              /\ main_exc' = IF r.raised THEN "OSError" ELSE main_exc
              /\ io_failed' = IF io = "ok" \/ ~r.opened THEN io_failed
                              ELSE io_failed \cup {"save_events"}
              /\ writes' = IF r.opened THEN writes \cup {"snapshot"} ELSE writes
    /\ stages' = Append(stages, "save_events")
    /\ UNCHANGED <<recent_events, comparison_results, report_content, yesterday_file,
                   report_file>>
    /\ UNCHANGED convVars

\* main.py 382-384
MainNoBaseline ==
    /\ pc = "saved"
    /\ BaselineMissing(yesterday_file)
    /\ pc' = "done"
    /\ console' = Append(console, "no_previous_file")
    /\ UNCHANGED <<recent_events, comparison_results, report_content, today_file,
                   yesterday_file, report_file, main_exc, stages, io_failed, writes>>
    /\ UNCHANGED convVars

\* mutant of MainComparison: the new side is the list scraped in this run
MainComparisonInMemory(old_file, new_file, scraped) == CompareEvents(old_file, FileOf(scraped))

\* main.py 379-387: the comparison main asks for, between the two snapshot
\* files; the scraped list in memory is not passed on
MainComparison(old_file, new_file, scraped) == CompareEvents(old_file, new_file)

\* main.py 386-387
MainCompare ==
    /\ pc = "saved"
    /\ ~BaselineMissing(yesterday_file)
    /\ \E r \in MainComparison(yesterday_file, today_file, recent_events[1][1]) :
          comparison_results' = Some(r)
    /\ pc' = "compared"
    /\ console' = Append(console, "comparing")
    /\ stages' = stages \o <<"compare_events", "load_events", "load_events">>
    /\ UNCHANGED <<recent_events, report_content, today_file, yesterday_file,
                   report_file, main_exc, io_failed, writes>>
    /\ UNCHANGED convVars

\* main.py 388, 350-355: generate the report and print it
MainPrintReport ==
    /\ pc = "compared"
    /\ \E now \in Clock :
          report_content' = Some(GenerateReportContent(comparison_results[1], now))
    /\ pc' = "printed"
    /\ console' = Append(console, "report")
    /\ stages' = stages \o <<"print_and_save_report", "generate_report_content">>
    /\ UNCHANGED <<recent_events, comparison_results, today_file, yesterday_file,
                   report_file, main_exc, io_failed, writes>>
    /\ UNCHANGED convVars

\* main.py 357-358, 340-348
MainSaveReport ==
    /\ pc = "printed"
    /\ \E io \in IoOutcomes :
          LET r == SaveReport(report_content[1], report_file, io)
          IN  /\ report_file' = r.file
              /\ console' = console \o r.out
              /\ pc' = IF r.raised THEN "crashed" ELSE "done"
              /\ main_exc' = IF r.raised THEN "OSError" ELSE main_exc
              /\ io_failed' = IF io = "ok" THEN io_failed ELSE io_failed \cup {"save_report"}
              /\ writes' = IF r.opened THEN writes \cup {"report"} ELSE writes
    /\ stages' = Append(stages, "save_report")
    /\ UNCHANGED <<recent_events, comparison_results, report_content, today_file,
                   yesterday_file>>
    /\ UNCHANGED convVars

Next ==
    \/ MainScrape
    \/ MainNoData
    \/ MainSaveEvents
    \/ MainNoBaseline
    \/ MainCompare
    \/ MainPrintReport
    \/ MainSaveReport

Spec == Init /\ [][Next]_vars

\* -------------------------------------------------- to_excel.py: one run
\* a diff result as compare_events builds it from its two lists
MkResults(added, removed) ==
    [added |-> added, removed |-> removed,
     stats |-> [added |-> Len(added), removed |-> Len(removed),
                total_old |-> Len(removed), total_new |-> Len(added)]]

\* short diff results over the event pool: url-unique lists, no url on both sides
HandLists == {l \in ListsOver(EventPool, MaxListed) : UniqueUrls(l)}
HandResults ==
    {MkResults(a, r) : <<a, r>> \in {p \in HandLists \X HandLists :
                                      \A i \in DOMAIN p[1], j \in DOMAIN p[2] :
                                          p[1][i].url # p[2][j].url}}

\* diff results with 0..MaxAdded added events
LongResults == {MkResults([i \in 1..n |-> LongEvent(i)], <<>>) : n \in 0..MaxAdded}

\* lines of free-form input texts
TextLines ==
    {Bar \o <<" ">> \o Words(<<"Newly", "added", "events">>) \o <<" ">> \o Bar,
     Bar \o <<" ">> \o Words(<<"Removed", "events">>) \o <<" ">> \o Bar,
     Bar \o <<" ">> \o Words(<<"New", "Events", "Summary">>) \o <<" ">> \o Bar,
     Words(<<"Newly", "added", "events">>) \o <<" ", "(", "1", ")", ":">>,
     <<"-", " ", "A">>,
     <<" ", " ", "URL", ":", " ", "/e/1">>,
     <<"1", ".", " ", "B">>,
     <<" ", " ", " ", "Venue", ":", " ", "Hall">>,
     <<>>,
     <<"junk">>}

Texts == UNION {[1..k -> TextLines] : k \in 0..MaxLines}

\* main() is not running during a run of the converter.
MainIdle ==
    /\ pc = "idle"
    /\ recent_events = None
    /\ comparison_results = None
    /\ report_content = None
    /\ today_file = AbsentFile
    /\ yesterday_file = AbsentFile
    /\ report_file = AbsentFile
    /\ console = <<>>
    /\ main_exc = "none"
    /\ stages = <<>>
    /\ io_failed = {}
    /\ writes = {}

\* Before convert_report_to_excel(): the input file is missing, holds a
\* free-form text, or is about to be written from a diff result.
ConvInit ==
    /\ MainIdle
    /\ \/ /\ conv_source \in {[kind |-> "report", results |-> r] :
                                 r \in HandResults \cup LongResults}
          /\ conv_pc = "render"
          /\ input_file = AbsentFile
       \/ /\ conv_source = [kind |-> "absent"]
          /\ conv_pc = "start"
          /\ input_file = AbsentFile
       \/ /\ conv_source = [kind |-> "text"]
          /\ conv_pc = "start"
          /\ input_file \in {FileOf(Join(t, NL)) : t \in Texts}
    /\ output_file = AbsentFile
    /\ lines = <<>>
    /\ idx = 0
    /\ current_section = "none"
    /\ events = <<>>
    /\ current_event = EmptyDict
    /\ conv_error = "none"
    /\ row_starts = <<>>

\* main.py 352, 344-345: the report text is generated and written to the file
ConvRender ==
    /\ conv_pc = "render"
    /\ \E now \in Clock :
          input_file' = FileOf(GenerateReportContent(conv_source.results, now))
    /\ conv_pc' = "start"
    /\ UNCHANGED <<conv_source, output_file, lines, idx, current_section, events,
                   current_event, conv_error, row_starts>>
    /\ UNCHANGED mainVars

\* to_excel.py 11-17: open and read the input, initialise the parser
ConvOpen ==
    /\ conv_pc = "start"
    /\ IF OpenRaises(input_file)
       THEN /\ conv_pc' = "raised"
            /\ conv_error' = "FileNotFoundError"
            /\ UNCHANGED <<lines, idx, current_section, events, current_event>>
       ELSE /\ conv_pc' = "loop"
            /\ lines' = Split(input_file.data, NL)
            /\ idx' = 0
            /\ current_section' = "none"
            /\ events' = <<>>
            /\ current_event' = EmptyDict
            /\ UNCHANGED conv_error
    /\ UNCHANGED <<conv_source, input_file, output_file, row_starts>>
    /\ UNCHANGED mainVars

\* a row-start line: a "- " line in the added or removed section, or a
\* numbered line in the summary section
RowStartLine(section, line) ==
    /\ Len(line) > 0
    /\ IF section \in {"added", "removed"} THEN StartsWith(line, <<"-", " ">>)
       ELSE IF section = "summary" THEN IsDigit(line[1]) /\ Contains(line, <<".", " ">>)
       ELSE FALSE

\* to_excel.py 20-67: one iteration of the for loop
ConvLine ==
    /\ conv_pc = "loop"
    /\ idx < Len(lines)
    /\ LET st == ParseLine([section |-> current_section, events |-> events,
                            current |-> current_event], lines[idx + 1])
       IN  /\ current_section' = st.section
           /\ events' = st.events
           /\ current_event' = st.current
    /\ idx' = idx + 1
    /\ row_starts' = IF RowStartLine(current_section, Strip(lines[idx + 1]))
                     THEN Append(row_starts, [line |-> Strip(lines[idx + 1]),
                                              section |-> current_section])
                     ELSE row_starts
    /\ UNCHANGED <<conv_pc, conv_source, input_file, output_file, lines, conv_error>>
    /\ UNCHANGED mainVars

\* to_excel.py 69-71: after the loop, the last event is appended
ConvLastFlush ==
    /\ conv_pc = "loop"
    /\ idx = Len(lines)
    /\ events' = Flush(events, current_event)
    /\ conv_pc' = "write"
    /\ UNCHANGED <<conv_source, input_file, output_file, lines, idx, current_section,
                   current_event, conv_error, row_starts>>
    /\ UNCHANGED mainVars

\* to_excel.py 73-102: the rows are put in the sheet (KeyError for a row that
\* lacks a key) and the workbook is saved (which can fail)
ConvWrite ==
    /\ conv_pc = "write"
    /\ \E io \in IoOutcomes :
          IF \E i \in DOMAIN events : ~(RowKeys \subseteq DOMAIN events[i])
          THEN /\ conv_pc' = "raised"
               /\ conv_error' = "KeyError"
               /\ UNCHANGED output_file
          ELSE /\ conv_pc' = IF io = "ok" THEN "done" ELSE "raised"
               /\ conv_error' = IF io = "ok" THEN conv_error ELSE "OSError"
               /\ output_file' = IF io = "ok" THEN FileOf(Sheet(events))
                                 ELSE IF io = "open_fails" THEN output_file
                                 ELSE MalformedFile
    /\ UNCHANGED <<conv_source, input_file, lines, idx, current_section, events,
                   current_event, row_starts>>
    /\ UNCHANGED mainVars

ConvNext ==
    \/ ConvRender
    \/ ConvOpen
    \/ ConvLine
    \/ ConvLastFlush
    \/ ConvWrite

SpecConv == ConvInit /\ [][ConvNext]_vars

\* ------------------------------------------------------ properties of main
UrlsOf(list) == {list[i].url : i \in DOMAIN list}

\* C3: for the snapshots loaded as url-keyed mappings, compare_events returns
\* added and removed whose urls are new_keys - old_keys and old_keys - new_keys,
\* disjoint, and with the unchanged urls a partition of old_keys + new_keys;
\* every added element is the full record of new, every removed one of old.
C3_ComparePartition ==
    comparison_results # None =>
        LET r == comparison_results[1]
            old == LoadEvents(yesterday_file)
            new == LoadEvents(today_file)
            oldk == DOMAIN old
            newk == DOMAIN new
            A == UrlsOf(r.added)
            R == UrlsOf(r.removed)
            U == oldk \cap newk
        IN  /\ A = {u \in newk : u \notin oldk}
            /\ R = {u \in oldk : u \notin newk}
            /\ A \cap R = {}
            /\ A \cap U = {}
            /\ R \cap U = {}
            /\ A \cup R \cup U = oldk \cup newk
            /\ Len(r.added) = Cardinality(A)
            /\ Len(r.removed) = Cardinality(R)
            /\ \A i \in DOMAIN r.added : r.added[i] = new[r.added[i].url]
            /\ \A i \in DOMAIN r.removed : r.removed[i] = old[r.removed[i].url]
            /\ r.stats = [added |-> Cardinality(A), removed |-> Cardinality(R),
                          total_old |-> Cardinality(oldk), total_new |-> Cardinality(newk)]

\* C3 witness: a comparison with an added, a removed and an unchanged url
C3_Witness ==
    /\ comparison_results # None
    /\ Len(comparison_results[1].added) = 1
    /\ Len(comparison_results[1].removed) = 1
    /\ comparison_results[1].stats.total_old = 2
    /\ comparison_results[1].stats.total_new = 2

\* the run scraped events and yesterday's snapshot file is absent
ScrapedWithoutBaseline ==
    /\ pc = "done"
    /\ recent_events # None
    /\ ~NoData(recent_events[1])
    /\ yesterday_file.state = "absent"

\* C4 as stated: with events scraped and yesterday's snapshot absent, the run
\* still diffs against an empty mapping and produces a report with total_old = 0.
C4_AsStated ==
    ScrapedWithoutBaseline =>
        /\ comparison_results # None
        /\ comparison_results[1].stats.total_old = 0
        /\ report_content # None

\* C4 amended: with events scraped and yesterday's snapshot absent, main saves
\* today's snapshot, prints that there is no previous file and returns normally:
\* no diff is computed and no report is printed or saved.
C4_NoBaselineNoReport ==
    ScrapedWithoutBaseline =>
        /\ comparison_results = None
        /\ report_content = None
        /\ report_file = AbsentFile
        /\ "report" \notin writes
        /\ stages = <<"scrape_events", "save_events">>
        /\ console[Len(console)] = "no_previous_file"
        /\ main_exc = "none"

\* C4 witness: such a run, with today's snapshot saved
C4_Witness ==
    /\ ScrapedWithoutBaseline
    /\ today_file = FileOf(recent_events[1][1])
    /\ io_failed = {}

\* C7: when the scraper returns None or an empty list, main stops before any
\* later stage: no snapshot is written or loaded, no diff, no report.
C7_ScrapeFailureShortCircuit ==
    (recent_events # None /\ (recent_events[1] = None \/ recent_events[1] = Some(<<>>))) =>
        /\ stages = <<"scrape_events">>
        /\ writes = {}
        /\ comparison_results = None
        /\ report_content = None
        /\ report_file = AbsentFile
        /\ "report" \notin Range(console)
        /\ pc \in {"scraped", "done"}

\* C7 witness: a finished run whose scrape returned an empty list
C7_Witness ==
    /\ pc = "done"
    /\ recent_events = Some(Some(<<>>))
    /\ yesterday_file.state = "ok"

AllStages ==
    <<"scrape_events", "save_events", "compare_events", "load_events", "load_events",
      "print_and_save_report", "generate_report_content", "save_report">>

\* C8: a failed write in save_events or save_report is logged and swallowed:
\* no exception reaches main, the run goes on through the remaining stages to
\* its normal end, and the artifact is missing.
C8_SaveFailureSwallowed ==
    /\ main_exc = "none"
    /\ pc # "crashed"
    /\ "save_events" \in io_failed =>
          /\ "error_saving_events" \in Range(console)
          /\ "saved_events" \notin Range(console)
          /\ today_file \in {AbsentFile, MalformedFile, FileOf(<<EvC>>)}
          /\ pc \in {"saved", "compared", "printed", "done"}
          /\ (pc = "done" /\ yesterday_file.state # "absent") => stages = AllStages
    /\ "save_report" \in io_failed =>
          /\ "error_saving_report" \in Range(console)
          /\ report_file.state # "ok"
          /\ pc = "done"
          /\ stages = AllStages
    /\ (io_failed # {} /\ pc # "done") => ENABLED Next

\* C8 witness: a finished run in which both writes failed and the report was printed
C8_Witness ==
    /\ pc = "done"
    /\ io_failed = {"save_events", "save_report"}
    /\ report_content # None

\* C11: the new side of the diff is read back from today's snapshot file, not
\* taken from the scraped list: after a failed save_events in a run whose
\* baseline exists the comparison still runs, on what the file holds then. A
\* missing (or truncated) file gives an empty mapping: every baseline event is
\* removed, none is added; a file left by an earlier run of the day gives that
\* run's events.
C11_NewSideReadFromFile ==
    /\ comparison_results # None =>
          LET r == comparison_results[1]
              oldk == DOMAIN LoadEvents(yesterday_file)
              newk == DOMAIN LoadEvents(today_file)
          IN  /\ UrlsOf(r.added) = newk \ oldk
              /\ UrlsOf(r.removed) = oldk \ newk
              /\ r.stats.total_new = Cardinality(newk)
              /\ \A i \in DOMAIN r.added : r.added[i] \in Range(today_file.data)
              /\ "save_events" \in io_failed =>
                    /\ today_file.state # "ok" =>
                          /\ Len(r.added) = 0
                          /\ UrlsOf(r.removed) = oldk
                          /\ r.stats.total_new = 0
                    /\ today_file.state = "ok" =>
                          /\ today_file = FileOf(<<EvC>>)
                          /\ \A i \in DOMAIN r.added : r.added[i] = EvC
    /\ (pc = "saved" /\ "save_events" \in io_failed /\ yesterday_file.state # "absent") =>
          ENABLED MainCompare

\* C11 witness: the save failed with today's file absent; both baseline events
\* are reported removed and none added, though an event scraped in this run is
\* not in the baseline
C11_Witness ==
    /\ comparison_results # None
    /\ "save_events" \in io_failed
    /\ today_file.state = "absent"
    /\ Len(comparison_results[1].added) = 0
    /\ Len(comparison_results[1].removed) = 2
    /\ UrlsOf(recent_events[1][1]) \ DOMAIN LoadEvents(yesterday_file) # {}

\* --------------------------------------------- properties of the converter
\* the run read a rendered report and finished
ReportParsed == conv_pc = "done" /\ conv_source.kind = "report"

\* the (name, url) pairs a report shows for a list of event records
ShownPairs(list) ==
    {<<Get(list[i], "name", Untitled), Get(list[i], "url", NA)>> : i \in DOMAIN list}

\* the (name, url) pairs of the parsed rows of a type
RowPairs(type) == {<<events[i].name, events[i].url>> : i \in {j \in DOMAIN events : events[j].type = type}}

\* C1 as stated: parsing a rendered report recovers, as Added rows, the
\* (name, url) pairs of the added list and, as Removed rows, those of the
\* removed list.
C1_RoundTrip ==
    ReportParsed =>
        /\ RowPairs(<<"Added">>) = ShownPairs(conv_source.results.added)
        /\ RowPairs(<<"Removed">>) = ShownPairs(conv_source.results.removed)

\* the line just consumed by the loop, stripped
LastLine == Strip(lines[idx])

\* C2 as stated: the lines "Newly added events (<N>):", "Removed events (<N>):"
\* and "=== New Events Summary ===" move the parser to the added, removed and
\* summary sections, and a report with one added event parses to exactly one
\* row, of type Added, with that event's url.
C2_SectionTransitions ==
    /\ (conv_pc = "loop" /\ idx > 0) =>
          /\ StartsWith(LastLine, Words(<<"Newly", "added", "events">>) \o <<" ", "(">>)
                => current_section = "added"
          /\ StartsWith(LastLine, Words(<<"Removed", "events">>) \o <<" ", "(">>)
                => current_section = "removed"
          /\ LastLine = Bar \o <<" ">> \o Words(<<"New", "Events", "Summary">>) \o <<" ">> \o Bar
                => current_section = "summary"
    /\ (ReportParsed /\ Len(conv_source.results.added) = 1
                     /\ Len(conv_source.results.removed) = 0) =>
          /\ Len(events) = 1
          /\ events[1].type = <<"Added">>
          /\ events[1].url = conv_source.results.added[1].url

\* the parsed rows of type New Summary, in order
SummaryRows == SelectSeq(events, LAMBDA e : e.type = Words(<<"New", "Summary">>))

\* C5 as stated: every rendered summary entry is parsed to a New Summary row
\* with the entry's name and the venue, date and url that were rendered.
C5_SummaryFields ==
    ReportParsed =>
        LET top == SummarySlice(conv_source.results.added)
        IN  /\ Len(SummaryRows) = Len(top)
            /\ \A i \in DOMAIN top :
                  /\ SummaryRows[i].name = Get(top[i], "name", Untitled)
                  /\ SummaryRows[i].venue = Get(top[i], "venue", NA)
                  /\ SummaryRows[i].date = Get(top[i], "date", NA)
                  /\ SummaryRows[i].url = Get(top[i], "url", NA)

\* C6 as stated: a missing input file and a text that does not follow the
\* report format both raise to the caller, and no output file is written.
C6_AsStated ==
    (conv_pc \in {"done", "raised"} /\ conv_source.kind \in {"absent", "text"}) =>
        /\ conv_pc = "raised"
        /\ output_file = AbsentFile

\* C6 amended: a missing input file raises FileNotFoundError and no output is
\* written; a text of any content raises nothing while it is parsed: lines the
\* parser does not recognise are skipped, and the rows it recognised (possibly
\* none) are written as a complete table, the run failing only if the save does.
C6_OnlyMissingFileRaises ==
    /\ conv_error \in {"none", "FileNotFoundError", "OSError"}
    /\ (conv_error = "FileNotFoundError") <=> (conv_source.kind = "absent" /\ conv_pc # "start")
    /\ conv_error = "FileNotFoundError" =>
          /\ conv_pc = "raised"
          /\ output_file = AbsentFile
          /\ events = <<>>
    /\ conv_error = "OSError" =>
          /\ conv_pc = "raised"
          /\ output_file.state # "ok"
          /\ idx = Len(lines)
    /\ (conv_source.kind # "absent" /\ conv_pc \notin {"render", "start", "loop"}) =>
          /\ idx = Len(lines)
          /\ Len(events) = Len(row_starts)
    /\ (conv_pc = "done") <=> (output_file.state = "ok")
    /\ conv_pc = "done" => output_file = FileOf(Sheet(events))

\* C6 witness: a free-form text with no recognised row was converted to a table
C6_Witness ==
    /\ conv_pc = "done"
    /\ conv_source.kind = "text"
    /\ Len(lines) = MaxLines
    /\ events = <<>>
    /\ output_file = FileOf(Sheet(<<>>))

\* the report has just been read and split into lines
ReportRead == conv_source.kind = "report" /\ conv_pc = "loop" /\ idx = 0

\* the positions of the report lines that start with a digit
NumberedAt == {i \in DOMAIN lines : Len(lines[i]) > 0 /\ IsDigit(lines[i][1])}

\* the positions of the summary header
SummaryHeaderAt ==
    {i \in DOMAIN lines :
        lines[i] = Bar \o <<" ">> \o Words(<<"New", "Events", "Summary">>) \o <<" ">> \o Bar}

\* C9: with n added events (single-line names that start with no digit) the
\* report has the summary section with exactly min(10, n) numbered entries,
\* numbered 1..min(10, n), for the first min(10, n) added events in order; with
\* n = 0 the section and its header are absent and "Newly added events (0):"
\* is followed by no event line.
C9_SummarySize ==
    ReportRead =>
        LET added == conv_source.results.added
            n == Len(added)
            k == IF n < 10 THEN n ELSE 10
        IN  /\ Cardinality(SummaryHeaderAt) = IF n = 0 THEN 0 ELSE 1
            /\ Cardinality(NumberedAt) = k
            /\ \A j \in 1..k :
                  \E i \in NumberedAt :
                      /\ Cardinality({m \in NumberedAt : m < i}) = j - 1
                      /\ \A h \in SummaryHeaderAt : h < i
                      /\ lines[i] = FormatInt(j) \o <<".", " ">> \o added[j].name
                      /\ lines[i + 1] = <<" ", " ", " ", "Venue", ":", " ">>
                                        \o Get(added[j], "venue", NA)
                      /\ lines[i + 2] = <<" ", " ", " ", "Date", ":", " ">>
                                        \o Get(added[j], "date", NA)
                      /\ lines[i + 3] = <<" ", " ", " ", "URL", ":", " ">> \o added[j].url
            /\ n = 0 =>
                  \E i \in DOMAIN lines :
                      /\ lines[i] = Words(<<"Newly", "added", "events">>)
                                    \o <<" ", "(", "0", ")", ":">>
                      /\ lines[i + 1] = <<>>
                      /\ StartsWith(lines[i + 2], Words(<<"Removed", "events">>))

\* C9 witness: a report rendered from more added events than the summary holds
C9_Witness ==
    /\ ReportRead
    /\ Len(conv_source.results.added) = 11
    /\ Cardinality(NumberedAt) = 10

\* the name and the type the row of a row-start line gets
RowNameOf(rs) ==
    IF rs.section = "summary" THEN AfterFirst(rs.line, <<".", " ">>)
    ELSE SubSeq(rs.line, 3, Len(rs.line))
RowTypeOf(rs) ==
    IF rs.section = "summary" THEN Words(<<"New", "Summary">>)
    ELSE IF rs.section = "added" THEN <<"Added">>
    ELSE <<"Removed">>

\* the rows appended so far, then the row being accumulated during the loop
RowsSoFar ==
    events \o (IF conv_pc = "loop" /\ Truthy(current_event) THEN <<current_event>> ELSE <<>>)

\* C10: every row-start line yields exactly one output row: the row being
\* accumulated is appended when the next row-start line is met and the last one
\* at the end of the input; none is appended twice or lost, and the rows are in
\* the order of their row-start lines.
C10_RowFlushing ==
    /\ Len(RowsSoFar) = Len(row_starts)
    /\ \A i \in DOMAIN row_starts :
          /\ RowsSoFar[i].name = RowNameOf(row_starts[i])
          /\ RowsSoFar[i].type = RowTypeOf(row_starts[i])
    /\ conv_pc = "loop" =>
          Len(events) = IF Len(row_starts) = 0 THEN 0 ELSE Len(row_starts) - 1
    /\ conv_pc \in {"write", "done"} => Len(events) = Len(row_starts)
    /\ conv_pc = "done" => output_file = FileOf(Sheet(events))

\* C10 witness: a rendered report with two summary entries and a flag line
\* after the last one, converted to two rows
C10_Witness ==
    /\ ReportParsed
    /\ Len(row_starts) = 2
    /\ Len(events) = 2
    /\ RowStartLine("summary", Strip(lines[Len(lines)])) = FALSE
    /\ output_file = FileOf(Sheet(events))

====
